---------------------------- MODULE Spec2Model ----------------------------
(***************************************************************************)
(* Model of r-polars' R-object -> polars Series conversion                 *)
(* (src/rust/src/rdataframe/r_to_series.rs) and of its data type catalog   *)
(* (src/rust/src/rdatatype.rs).                                            *)
(*                                                                         *)
(* Three specifications share the variables:                               *)
(*   Spec        one call of robjname2series on a bounded R object         *)
(*   SpecCatalog calls of the string resolvers of rdatatype.rs             *)
(*   SpecDtv     one call of DataTypeVector::from_rlist, entry by entry    *)
(***************************************************************************)
EXTENDS Integers, Sequences, FiniteSets, TLC

VARIABLES
    x,                \* robjname2series: the R object converted
    name,             \* robjname2series: the name asked for
    pc,               \* position inside robjname2series
    st,               \* the SeriesTree built by step 1
    first_leaf_dtype, \* the Option<DataType> found by step 2
    out,              \* the PolarsResult<Series> returned
    visited,          \* nodes recursive_robjname2series_tree was called on, in call order
    clog,             \* nodes concat_series_tree was called on, with what each produced
    call,             \* catalog: the resolver called and its argument
    ret,              \* catalog: what the call produced
    rlist,            \* from_rlist: the R list given
    dtv,              \* from_rlist: the DataTypeVector being filled
    idx,              \* from_rlist: position of the list iterator
    res               \* from_rlist: the collected Result / the value returned

vars == <<x, name, pc, st, first_leaf_dtype, out, visited, clog,
          call, ret, rlist, dtv, idx, res>>

convVars == <<x, name, pc, st, first_leaf_dtype, out, visited, clog>>
catVars  == <<call, ret>>
dtvVars  == <<rlist, dtv, idx, res>>

(***************************************************************************)
(* Bounds                                                                  *)
(***************************************************************************)
MaxNodes   == 5   \* nodes of a nested R object
MaxVecLen  == 2   \* elements of a flat R vector
MaxEntries == 3   \* entries of the list given to from_rlist

(***************************************************************************)
(* Option<T>: None is the empty sequence, Some(v) the one-element sequence *)
(***************************************************************************)
None       == <<>>
Some(v)    == <<v>>
IsSome(o)  == Len(o) = 1
Unwrap(o)  == o[1]

(***************************************************************************)
(* pl::DataType: a base variant wrapped in `depth` levels of List          *)
(***************************************************************************)
DT(base)   == [base |-> base, depth |-> 0]
ListOf(dt) == [base |-> dt.base, depth |-> dt.depth + 1]

(***************************************************************************)
(* R values.  R marks a missing element inside the vector itself:          *)
(* NA_integer_ and NA (logical) are i32::MIN, NA_real_ is one particular   *)
(* NaN, NA_character_ is one particular string object (not the text "NA"). *)
(***************************************************************************)
NA_INTEGER == -2147483647 - 1
NA_LOGICAL == NA_INTEGER
NA_REAL    == "NA_real_"
NA_STRING  == "NA_character_"

is_na(rtype, v) ==
    CASE rtype = "Doubles"  -> v = NA_REAL
      [] rtype = "Strings"  -> v = NA_STRING
      [] rtype = "Logicals" -> v = NA_LOGICAL
      [] rtype = "Integers" -> v = NA_INTEGER

\* A flat vector.  no_na is R's "known to hold no NA" flag: an ALTREP vector
\* may set it, an ordinary vector never does, so FALSE says nothing.
RVec(rtype, vals, no_na, class, levels) ==
    [rtype |-> rtype, vals |-> vals, no_na |-> no_na, class |-> class,
     levels |-> levels, elems |-> <<>>]

RNull      == RVec("Null", <<>>, FALSE, "", <<>>)
RFunction  == RVec("Function", <<>>, FALSE, "", <<>>)
RSymbol    == RVec("Symbol", <<>>, FALSE, "", <<>>)
RList(es)  == [rtype |-> "List", vals |-> <<>>, no_na |-> FALSE, class |-> "",
               levels |-> <<>>, elems |-> es]

\* The names a list gives its elements, by position.
ElemNames  == <<"a", "b", "c", "d", "e", "f", "g">>

(***************************************************************************)
(* pl::Series                                                              *)
(***************************************************************************)
Series(nm, dt, values) == [name |-> nm, dtype |-> dt, values |-> values]
NoSeries   == Series("", DT("-"), <<>>)

\* Series::new(name, &[T]) / Series::new(name, Vec<&str>): every slot present
Series_new_slice(nm, base, vals) ==
    Series(nm, DT(base), [i \in 1..Len(vals) |-> Some(vals[i])])

\* iter().map(|x| if x.is_na() { None } else { Some(..) }).collect()
Series_from_options(nm, base, rtype, vals) ==
    Series(nm, DT(base),
           [i \in 1..Len(vals) |->
               IF is_na(rtype, vals[i]) THEN None ELSE Some(vals[i])])

\* Series::cast as used here: the dtype changes, the slots are kept
Series_cast(s, dt) == [s EXCEPT !.dtype = dt]

\* Series::new(name, Vec<Series>): a List series, one sublist per series,
\* inner dtype taken from the first
Series_new_list(nm, series_vec) ==
    Series(nm, ListOf(series_vec[1].dtype),
           [i \in 1..Len(series_vec) |-> Some(series_vec[i].values)])

(***************************************************************************)
(* enum SeriesTree                                                         *)
(***************************************************************************)
ST_Series(s)     == [tag |-> "Series", s |-> s, sv |-> <<>>]
ST_SeriesVec(sv) == [tag |-> "SeriesVec", s |-> NoSeries, sv |-> sv]
SeriesEmptyVec   == [tag |-> "SeriesEmptyVec", s |-> NoSeries, sv |-> <<>>]

(***************************************************************************)
(* PolarsError, and the results of the three passes                        *)
(***************************************************************************)
NoErr == [variant |-> "-", text |-> "", args |-> <<>>]
PolarsError(variant, text, args) == [variant |-> variant, text |-> text, args |-> args]

BuildOk(t, vis)  == [ok |-> TRUE,  st |-> t, err |-> NoErr, visited |-> vis]
BuildErr(e, vis) == [ok |-> FALSE, st |-> SeriesEmptyVec, err |-> e, visited |-> vis]

ROk(s, log)      == [kind |-> "Ok",    s |-> s, err |-> NoErr, log |-> log]
RErr(e, log)     == [kind |-> "Err",   s |-> NoSeries, err |-> e, log |-> log]
RPanic(log)      == [kind |-> "Panic", s |-> NoSeries, err |-> NoErr, log |-> log]


(***************************************************************************)
(* Step 1: recursive_robjname2series_tree and its helpers                  *)
(***************************************************************************)
RECURSIVE recursive_robjname2series_tree(_, _, _)
RECURSIVE collect_children(_, _, _)
RECURSIVE find_first_leaf_datatype(_)
RECURSIVE first_some(_, _)
RECURSIVE concat_series_tree(_, _, _, _)
RECURSIVE concat_children(_, _, _, _)

\* handle R character/strings to utf8
robj_to_utf8_series(rstrings, nm) ==
    IF rstrings.no_na
    THEN Series_new_slice(nm, "Utf8", rstrings.vals)
    ELSE Series_from_options(nm, "Utf8", "Strings", rstrings.vals)

\* Robj::as_character_factor: the label of every code, NA for an NA code;
\* the result is a freshly allocated (ordinary) character vector
as_character_factor(xf) ==
    RVec("Strings",
         [i \in 1..Len(xf.vals) |->
             IF xf.vals[i] = NA_INTEGER THEN NA_STRING ELSE xf.levels[xf.vals[i]]],
         FALSE, "", <<>>)

\* the Rtype::Logicals arm
logicals_to_series(xl, nm) ==
    Series(nm, DT("Boolean"),
           [i \in 1..Len(xl.vals) |->
               IF is_na("Logicals", xl.vals[i]) THEN None ELSE Some(xl.vals[i] # 0)])

\* the Rtype::Doubles arm
doubles_to_series(xd, nm) ==
    IF xd.no_na
    THEN Series_new_slice(nm, "Float64", xd.vals)
    ELSE Series_from_options(nm, "Float64", "Doubles", xd.vals)

\* an Rtype::Integers arm that always builds from the raw buffer
mutant_integers_to_series(xi, nm) == Series_new_slice(nm, "Int32", xi.vals)

\* the Rtype::Integers arm (not a factor)
integers_to_series(xi, nm) ==
    IF xi.no_na
    THEN Series_new_slice(nm, "Int32", xi.vals)
    ELSE Series_from_options(nm, "Int32", "Integers", xi.vals)

\* the Rtype::Integers if x.inherits("factor") arm
factor_to_series(xf, nm) ==
    Series_cast(robj_to_utf8_series(as_character_factor(xf), nm), DT("Categorical"))

\* a List arm without the zero-length case
mutant_list_to_tree(vst) == ST_SeriesVec(vst)

\* the closure of the Rtype::List arm: a zero-length Vec becomes SeriesEmptyVec
list_to_tree(vst) ==
    IF Len(vst) = 0 THEN SeriesEmptyVec ELSE ST_SeriesVec(vst)

\* a collect that converts every child before it looks at the results
mutant_collect_children(elems, path, i) ==
    IF i > Len(elems)
    THEN [ok |-> TRUE, vst |-> <<>>, err |-> NoErr, visited |-> <<>>]
    ELSE LET r    == recursive_robjname2series_tree(elems[i].robj, elems[i].name,
                                                    Append(path, i))
             rest == collect_children(elems, path, i + 1)
         IN  [ok      |-> r.ok /\ rest.ok,
              vst     |-> IF r.ok /\ rest.ok THEN <<r.st>> \o rest.vst ELSE <<>>,
              err     |-> IF ~r.ok THEN r.err ELSE rest.err,
              visited |-> r.visited \o rest.visited]

\* .iter().map(|(name, robj)| recursive_robjname2series_tree(&robj, name)).collect()
\* into a PolarsResult<Vec<_>>: the iterator is driven from the left and is
\* dropped at the first Err
collect_children(elems, path, i) ==
    IF i > Len(elems)
    THEN [ok |-> TRUE, vst |-> <<>>, err |-> NoErr, visited |-> <<>>]
    ELSE LET r == recursive_robjname2series_tree(elems[i].robj, elems[i].name,
                                                 Append(path, i))
         IN  IF ~r.ok
             THEN [ok |-> FALSE, vst |-> <<>>, err |-> r.err, visited |-> r.visited]
             ELSE LET rest == collect_children(elems, path, i + 1)
                  IN  [ok      |-> rest.ok,
                       vst     |-> IF rest.ok THEN <<r.st>> \o rest.vst ELSE <<>>,
                       err     |-> rest.err,
                       visited |-> r.visited \o rest.visited]

\* convert any Robj into a SeriesTree; `path` is the position of x in the input
recursive_robjname2series_tree(xx, nm, path) ==
    CASE xx.rtype = "Doubles"  -> BuildOk(ST_Series(doubles_to_series(xx, nm)), <<path>>)
      [] xx.rtype = "Strings"  -> BuildOk(ST_Series(robj_to_utf8_series(xx, nm)), <<path>>)
      [] xx.rtype = "Logicals" -> BuildOk(ST_Series(logicals_to_series(xx, nm)), <<path>>)
      [] xx.rtype = "Integers" /\ xx.class = "factor" ->
                                  BuildOk(ST_Series(factor_to_series(xx, nm)), <<path>>)
      [] xx.rtype = "Integers" /\ xx.class # "factor" ->
                                  BuildOk(ST_Series(integers_to_series(xx, nm)), <<path>>)
      [] xx.rtype = "Null"     -> BuildOk(SeriesEmptyVec, <<path>>)
      [] xx.rtype = "List"     ->
            LET r == collect_children(xx.elems, path, 1)
            IN  IF r.ok
                THEN BuildOk(list_to_tree(r.vst), <<path>> \o r.visited)
                ELSE BuildErr(r.err, <<path>> \o r.visited)
      [] OTHER ->
            BuildErr(PolarsError("NotFound",
                                 "new series from rtype {:?} is not supported (yet)",
                                 <<xx.rtype>>),
                     <<path>>)

(***************************************************************************)
(* Step 2: find_first_leaf_datatype                                        *)
(***************************************************************************)
\* a first_some without the filter: only the first child is asked
mutant_first_some(sv, i) ==
    IF i > Len(sv) THEN None ELSE find_first_leaf_datatype(sv[i])

\* sv.iter().map(find_first_leaf_datatype).filter(|x| x.is_some()).next().flatten()
first_some(sv, i) ==
    IF i > Len(sv) THEN None
    ELSE LET o == find_first_leaf_datatype(sv[i])
         IN  IF IsSome(o) THEN o ELSE first_some(sv, i + 1)

find_first_leaf_datatype(t) ==
    CASE t.tag = "Series"         -> Some(t.s.dtype)
      [] t.tag = "SeriesEmptyVec" -> None
      [] t.tag = "SeriesVec"      -> first_some(t.sv, 1)

(***************************************************************************)
(* Step 3: concat_series_tree                                              *)
(***************************************************************************)
Event(path, arm, s) == [path |-> path, arm |-> arm, s |-> s]

\* Series::new(name, [0f64; 0]).to_list()?.slice(0, 0).into_series()
empty_list_series(nm) == Series(nm, ListOf(DT("Float64")), <<>>)

\* a SeriesEmptyVec arm that forgets the cast
mutant_concat_empty(leaf_dtype, nm) == empty_list_series(nm)

\* the SeriesEmptyVec arm
concat_empty(leaf_dtype, nm) ==
    IF IsSome(leaf_dtype)
    THEN Series_cast(empty_list_series(nm), Unwrap(leaf_dtype))
    ELSE empty_list_series(nm)

\* sv.into_iter().map(|inner_st| concat_series_tree(inner_st, leaf_dtype, "")).collect()
concat_children(sv, leaf_dtype, path, i) ==
    IF i > Len(sv)
    THEN [kind |-> "Ok", series_vec |-> <<>>, err |-> NoErr, log |-> <<>>]
    ELSE LET r == concat_series_tree(sv[i], leaf_dtype, "", Append(path, i))
         IN  IF r.kind # "Ok"
             THEN [kind |-> r.kind, series_vec |-> <<>>, err |-> r.err, log |-> r.log]
             ELSE LET rest == concat_children(sv, leaf_dtype, path, i + 1)
                  IN  [kind       |-> rest.kind,
                       series_vec |-> IF rest.kind = "Ok"
                                      THEN <<r.s>> \o rest.series_vec ELSE <<>>,
                       err        |-> rest.err,
                       log        |-> r.log \o rest.log]

\* a type check that looks at the base type and not at the list nesting
mutant_mismatches(series_vec) ==
    {i \in 2..Len(series_vec) : series_vec[i].dtype.base # series_vec[1].dtype.base}

\* the loop "check for any type mismatch": positions after the first whose
\* dtype is not the first's
mismatches(series_vec) ==
    {i \in 2..Len(series_vec) : series_vec[i].dtype # series_vec[1].dtype}

Min(S) == CHOOSE m \in S : \A k \in S : m <= k

\* a merge without the type check
mutant_check_and_merge(series_vec, nm) ==
    [kind |-> "Ok", s |-> Series_new_list(nm, series_vec), err |-> NoErr]

check_and_merge(series_vec, nm) ==
    IF mismatches(series_vec) # {}
    THEN [kind |-> "Err", s |-> NoSeries,
          err |-> PolarsError("SchemaMisMatch",
                   "When building series from R list; some parsed sub-elements did not match: One element was {} and another was {}",
                   <<series_vec[1].dtype, series_vec[Min(mismatches(series_vec))].dtype>>)]
    ELSE [kind |-> "Ok", s |-> Series_new_list(nm, series_vec), err |-> NoErr]

concat_series_tree(t, leaf_dtype, nm, path) ==
    CASE t.tag = "Series" -> ROk(t.s, <<Event(path, "Series", t.s)>>)
      [] t.tag = "SeriesEmptyVec" ->
            LET s == concat_empty(leaf_dtype, nm)
            IN  ROk(s, <<Event(path, "SeriesEmptyVec", s)>>)
      [] t.tag = "SeriesVec" /\ Len(t.sv) = 0 ->
            RPanic(<<Event(path, "unreachable", NoSeries)>>)
      [] t.tag = "SeriesVec" /\ Len(t.sv) # 0 ->
            LET here == <<Event(path, "SeriesVec", NoSeries)>>
                c    == concat_children(t.sv, leaf_dtype, path, 1)
            IN  IF c.kind = "Panic" THEN RPanic(here \o c.log)
                ELSE IF c.kind = "Err" THEN RErr(c.err, here \o c.log)
                ELSE LET m == check_and_merge(c.series_vec, nm)
                     IN  IF m.kind = "Err" THEN RErr(m.err, here \o c.log)
                         ELSE ROk(m.s, here \o c.log)

(***************************************************************************)
(* The R objects robjname2series is called on                              *)
(***************************************************************************)
RECURSIVE SeqsUpTo(_, _)
SeqsUpTo(S, n) ==
    IF n = 0 THEN {<<>>}
    ELSE LET shorter == SeqsUpTo(S, n - 1)
         IN  shorter \cup {Append(q, e) : q \in {r \in shorter : Len(r) = n - 1}, e \in S}

DoubleVals  == {"1.5", "NaN", NA_REAL}
IntegerVals == {0, 7, NA_INTEGER}
StringVals  == {"a", "NA", NA_STRING}
LogicalVals == {0, 1, NA_LOGICAL}
FactorCodes == {1, 2, NA_INTEGER}
FactorLevels == <<"u", "v">>

HasNA(rtype, vals) == \E i \in 1..Len(vals) : is_na(rtype, vals[i])

\* the flag may be set only on a vector that holds no NA
NoNaFlags(rtype, vals) == IF HasNA(rtype, vals) THEN {FALSE} ELSE {FALSE, TRUE}

VecsOf(rtype, V) ==
    UNION {{RVec(rtype, vals, f, "", <<>>) : f \in NoNaFlags(rtype, vals)} :
             vals \in SeqsUpTo(V, MaxVecLen)}

FlatVectors ==
    VecsOf("Doubles", DoubleVals) \cup VecsOf("Integers", IntegerVals)
      \cup VecsOf("Strings", StringVals) \cup VecsOf("Logicals", LogicalVals)
      \cup {RVec("Integers", vals, FALSE, "factor", FactorLevels) :
               vals \in SeqsUpTo(FactorCodes, MaxVecLen)}

\* the vectors, markers and unsupported objects nested inside lists
Atoms ==
    {RVec("Doubles", <<"1.5">>, FALSE, "", <<>>),
     RVec("Integers", <<7>>, FALSE, "", <<>>),
     RNull, RFunction, RSymbol}

NamedElems(f) == [i \in 1..Len(f) |-> [name |-> ElemNames[i], robj |-> f[i]]]

RECURSIVE ObjectsOfSize(_)
RECURSIVE ForestsOfSize(_)
\* the R objects made of exactly n nodes (a list counts one, plus its elements)
ObjectsOfSize(n) ==
    (IF n = 1 THEN Atoms ELSE {})
      \cup {RList(NamedElems(f)) : f \in ForestsOfSize(n - 1)}

ForestsOfSize(m) ==
    IF m = 0 THEN {<<>>}
    ELSE UNION {{<<t>> \o f : t \in ObjectsOfSize(k), f \in ForestsOfSize(m - k)} :
                  k \in 1..m}

\* the inputs by number of nodes; 0 stands for the flat vectors
Inputs(n) == IF n = 0 THEN FlatVectors ELSE ObjectsOfSize(n)

Names == {"s"}

(***************************************************************************)
(* robjname2series, one step per numbered step of the source               *)
(***************************************************************************)
NoOut == [kind |-> "-", s |-> NoSeries, err |-> NoErr]
NoRet == [kind |-> "-", dtype |-> DT("-"), variant |-> "", msg |-> NoErr, names |-> <<>>]
NoCall == [fn |-> "-", arg |-> ""]
NoRes == [kind |-> "-", dtv |-> <<>>, err |-> "", vec |-> <<>>]

InitConvIdle ==
    /\ x = RNull /\ name = "" /\ pc = "idle" /\ st = SeriesEmptyVec
    /\ first_leaf_dtype = None /\ out = NoOut /\ visited = <<>> /\ clog = <<>>
InitCatIdle == call = NoCall /\ ret = NoRet
InitDtvIdle == rlist = <<>> /\ dtv = <<>> /\ idx = 0 /\ res = NoRes

Init ==
    /\ \E n \in 0..MaxNodes : x \in Inputs(n)
    /\ name \in Names
    /\ pc = "start"
    /\ st = SeriesEmptyVec
    /\ first_leaf_dtype = None
    /\ out = NoOut
    /\ visited = <<>>
    /\ clog = <<>>
    /\ InitCatIdle
    /\ InitDtvIdle

\* 1 parse: let st = recursive_robjname2series_tree(x, name)?  -- Ok
step1_parse_ok ==
    /\ pc = "start"
    /\ LET r == recursive_robjname2series_tree(x, name, <<>>)
       IN  /\ r.ok
           /\ st' = r.st
           /\ visited' = r.visited
    /\ pc' = "parsed"
    /\ UNCHANGED <<x, name, first_leaf_dtype, out, clog, catVars, dtvVars>>

\* 1 parse: the ? returns the Err to the caller
step1_parse_err ==
    /\ pc = "start"
    /\ LET r == recursive_robjname2series_tree(x, name, <<>>)
       IN  /\ ~r.ok
           /\ out' = [kind |-> "Err", s |-> NoSeries, err |-> r.err]
           /\ visited' = r.visited
    /\ pc' = "done"
    /\ UNCHANGED <<x, name, st, first_leaf_dtype, clog, catVars, dtvVars>>

\* 2 search for first leaf dtype
step2_find_first_leaf ==
    /\ pc = "parsed"
    /\ first_leaf_dtype' = find_first_leaf_datatype(st)
    /\ pc' = "resolved"
    /\ UNCHANGED <<x, name, st, out, visited, clog, catVars, dtvVars>>

\* 3 concat SeriesTree into one Series
step3_concat ==
    /\ pc = "resolved"
    /\ LET r == concat_series_tree(st, first_leaf_dtype, name, <<>>)
       IN  /\ out' = [kind |-> r.kind, s |-> r.s, err |-> r.err]
           /\ clog' = r.log
    /\ pc' = "done"
    /\ UNCHANGED <<x, name, st, first_leaf_dtype, visited, catVars, dtvVars>>

Next ==
    \/ step1_parse_ok
    \/ step1_parse_err
    \/ step2_find_first_leaf
    \/ step3_concat

Spec == Init /\ [][Next]_vars

(***************************************************************************)
(* Vocabulary of the properties of Spec                                    *)
(***************************************************************************)
ConcatRan == pc = "done" /\ clog # <<>>
Parsed    == pc \in {"parsed", "resolved"} \/ ConcatRan
Resolved  == pc = "resolved" \/ ConcatRan

RECURSIVE Concatenation(_, _)
Concatenation(seqs, i) ==
    IF i > Len(seqs) THEN <<>> ELSE seqs[i] \o Concatenation(seqs, i + 1)

\* the Leaves of a tree, left to right depth first, each with its nesting depth
RECURSIVE LeafInfo(_, _)
LeafInfo(t, d) ==
    CASE t.tag = "Series"         -> <<[dtype |-> t.s.dtype, depth |-> d]>>
      [] t.tag = "SeriesEmptyVec" -> <<>>
      [] t.tag = "SeriesVec"      ->
            Concatenation([i \in 1..Len(t.sv) |-> LeafInfo(t.sv[i], d + 1)], 1)

Leaves(t) == LeafInfo(t, 0)

\* the positions of the nodes of a tree, and the subtree at a position
RECURSIVE TreePaths(_, _)
TreePaths(t, p) ==
    {p} \cup UNION {TreePaths(t.sv[i], Append(p, i)) : i \in 1..Len(t.sv)}

RECURSIVE Subtree(_, _)
Subtree(t, p) == IF p = <<>> THEN t ELSE Subtree(t.sv[Head(p)], Tail(p))

\* the nodes of an R object in left-to-right depth-first order
RECURSIVE Preorder(_, _)
Preorder(o, p) ==
    <<p>> \o Concatenation(
        [i \in 1..Len(o.elems) |-> Preorder(o.elems[i].robj, Append(p, i))], 1)

RECURSIVE RNode(_, _)
RNode(o, p) == IF p = <<>> THEN o ELSE RNode(o.elems[Head(p)].robj, Tail(p))

SupportedShapes == {"Doubles", "Strings", "Logicals", "Integers", "Null", "List"}

\* the shapes of the nodes of an R object, in the order of Preorder
RECURSIVE Shapes(_)
Shapes(o) ==
    <<o.rtype>> \o Concatenation([i \in 1..Len(o.elems) |-> Shapes(o.elems[i].robj)], 1)

\* positions, in Preorder(x), of the nodes of unsupported shape
UnsupportedAt(o) ==
    LET sh == Shapes(o) IN {k \in 1..Len(sh) : sh[k] \notin SupportedShapes}

GivenName(p) == IF p = <<>> THEN name ELSE ""

(***************************************************************************)
(* C1                                                                      *)
(***************************************************************************)
FirstLeafOf(t) == IF Leaves(t) = <<>> THEN None ELSE Some(Leaves(t)[1].dtype)

\* C1: find_first_leaf_datatype returns None exactly when the tree holds no
\* Leaf at any depth, and otherwise the type of the first Leaf in left-to-right
\* depth-first order, whatever the types of the later Leaves; this holds of the
\* value robjname2series keeps and of every subtree of the tree.
C1_FirstLeafDatatype ==
    /\ Resolved => first_leaf_dtype = FirstLeafOf(st)
    /\ Parsed =>
         \A p \in TreePaths(st, <<>>) :
            /\ find_first_leaf_datatype(Subtree(st, p)) = FirstLeafOf(Subtree(st, p))
            /\ (find_first_leaf_datatype(Subtree(st, p)) = None)
                  <=> (Leaves(Subtree(st, p)) = <<>>)

\* C1 witness: an Empty child first, then two Leaves of different types; the
\* type found is the first Leaf's
C1_Witness ==
    /\ pc = "resolved"
    /\ st.tag = "SeriesVec"
    /\ st.sv[1].tag = "SeriesEmptyVec"
    /\ Len(Leaves(st)) >= 2
    /\ Leaves(st)[1].dtype # Leaves(st)[2].dtype
    /\ first_leaf_dtype = Some(Leaves(st)[1].dtype)

(***************************************************************************)
(* C2                                                                      *)
(***************************************************************************)
ChildResults(t, p) ==
    [i \in 1..Len(t.sv) |-> concat_series_tree(t.sv[i], first_leaf_dtype, "", Append(p, i))]

BranchContract(t, p) ==
    LET cs  == ChildResults(t, p)
        r   == concat_series_tree(t, first_leaf_dtype, GivenName(p), p)
        bad == {i \in 1..Len(cs) : cs[i].s.dtype # cs[1].s.dtype}
    IN  (\A i \in 1..Len(cs) : cs[i].kind = "Ok") =>
          /\ (r.kind = "Ok") <=> (bad = {})
          /\ bad = {} =>
                /\ r.s.name = GivenName(p)
                /\ r.s.dtype = ListOf(cs[1].s.dtype)
                /\ Len(r.s.values) = Len(cs)
                /\ \A i \in 1..Len(cs) : r.s.values[i] = Some(cs[i].s.values)
          /\ bad # {} =>
                /\ r.kind = "Err"
                /\ r.s = NoSeries
                /\ r.err.variant = "SchemaMisMatch"
                /\ r.err.args = <<cs[1].s.dtype,
                                  cs[CHOOSE i \in bad : \A j \in bad : i <= j].s.dtype>>

\* C2: a Branch with one or more children whose children all concatenate
\* succeeds exactly when every child's type equals the first child's, whatever
\* their lengths; it then returns, under the given name, a list Series of that
\* type with one sublist per child in child order; otherwise it fails with
\* SchemaMisMatch naming the first child's type and the first differing
\* child's type, and returns no Series.
C2_BranchConcat ==
    /\ Resolved =>
         \A p \in TreePaths(st, <<>>) :
            (Subtree(st, p).tag = "SeriesVec" /\ Len(Subtree(st, p).sv) >= 1)
               => BranchContract(Subtree(st, p), p)
    /\ (ConcatRan /\ st.tag = "SeriesVec") =>
         LET r == concat_series_tree(st, first_leaf_dtype, name, <<>>)
         IN  out = [kind |-> r.kind, s |-> r.s, err |-> r.err]

\* C2 witness: a Branch of a one-element Leaf and an Empty (lengths 1 and 0)
\* merged into two sublists
C2_Witness ==
    /\ ConcatRan
    /\ st.tag = "SeriesVec"
    /\ Len(st.sv) = 2
    /\ st.sv[1].tag = "Series" /\ st.sv[2].tag = "SeriesEmptyVec"
    /\ out.kind = "Ok"
    /\ out.s.name = name
    /\ Len(out.s.values) = 2
    /\ Len(out.s.values[1][1]) = 1 /\ Len(out.s.values[2][1]) = 0

(***************************************************************************)
(* C3                                                                      *)
(***************************************************************************)
EmptyEvents == {k \in 1..Len(clog) : clog[k].arm = "SeriesEmptyVec"}

EmptyPaths(t) == {p \in TreePaths(t, <<>>) : Subtree(t, p).tag = "SeriesEmptyVec"}

\* C3: every Empty node the concatenator comes to is materialized as a
\* zero-length Series; when the tree holds a Leaf anywhere its type is the
\* first Leaf's type T, at whatever depth the Empty node sits, and it keeps the
\* default (list of Float64) only when the tree holds no Leaf at all.  In a
\* conversion that succeeds every Empty node of the tree is materialized.
C3_EmptyMaterialized ==
    ConcatRan =>
      /\ \A k \in EmptyEvents :
            /\ Subtree(st, clog[k].path).tag = "SeriesEmptyVec"
            /\ Len(clog[k].s.values) = 0
            /\ clog[k].s.name = GivenName(clog[k].path)
            /\ Leaves(st) # <<>> => clog[k].s.dtype = Leaves(st)[1].dtype
            /\ Leaves(st) = <<>> => clog[k].s.dtype = ListOf(DT("Float64"))
            /\ (clog[k].s.dtype = ListOf(DT("Float64"))) <=> (Leaves(st) = <<>>)
      /\ out.kind = "Ok" => {clog[k].path : k \in EmptyEvents} = EmptyPaths(st)

\* C3 witness: a conversion that succeeds with an Empty node two levels down,
\* cast to the Int32 of a Leaf met later
C3_Witness ==
    /\ ConcatRan
    /\ out.kind = "Ok"
    /\ \E k \in EmptyEvents :
          /\ Len(clog[k].path) = 2
          /\ clog[k].s.dtype = DT("Int32")
          /\ Len(clog[k].s.values) = 0

\* C3 witness of the default: no Leaf anywhere, the Empty node keeps list of Float64
C3_WitnessDefault ==
    /\ ConcatRan
    /\ st.tag = "SeriesVec"
    /\ Leaves(st) = <<>>
    /\ \E k \in EmptyEvents : clog[k].s.dtype = ListOf(DT("Float64"))

(***************************************************************************)
(* C4                                                                      *)
(***************************************************************************)
\* C4: when some node of the input has an unsupported shape, the call returns
\* the NotFound error naming the shape of the first such node in left-to-right
\* depth-first order; the builder was called on the nodes up to that one and on
\* none after it, steps 2 and 3 never run, and no Series is returned.
C4_FailFast ==
    LET bad == UnsupportedAt(x)
    IN  (pc # "idle" /\ bad # {}) =>
          /\ pc \in {"start", "done"}
          /\ st = SeriesEmptyVec /\ first_leaf_dtype = None /\ clog = <<>>
          /\ pc = "done" =>
               LET first == CHOOSE k \in bad : \A j \in bad : k <= j
               IN  /\ out.kind = "Err"
                   /\ out.s = NoSeries
                   /\ out.err.variant = "NotFound"
                   /\ out.err.args = <<Shapes(x)[first]>>
                   /\ RNode(x, visited[Len(visited)]).rtype = Shapes(x)[first]
                   /\ visited = SubSeq(Preorder(x, <<>>), 1, first)

\* C4 witness: two siblings of different types (a SchemaMisMatch in the making),
\* then an unsupported node, then a node never visited
C4_Witness ==
    /\ pc = "done"
    /\ out.kind = "Err" /\ out.err.variant = "NotFound"
    /\ x.rtype = "List" /\ Len(x.elems) = 4
    /\ x.elems[1].robj.rtype = "Doubles" /\ x.elems[2].robj.rtype = "Integers"
    /\ Len(visited) = 4
    /\ Len(Preorder(x, <<>>)) = 5

(***************************************************************************)
(* C5                                                                      *)
(***************************************************************************)
FlatShapes == {"Doubles", "Integers", "Strings", "Logicals"}

\* the missing marker of each kind of vector, as R defines it
Missing(o, i) ==
    \/ o.rtype = "Doubles"  /\ o.vals[i] = "NA_real_"
    \/ o.rtype = "Strings"  /\ o.vals[i] = "NA_character_"
    \/ o.rtype \in {"Integers", "Logicals"} /\ o.vals[i] = -2147483647 - 1

\* what slot i must hold when element i is present
Present(o, i) ==
    CASE o.rtype = "Logicals" -> (o.vals[i] = 1)
      [] o.rtype = "Integers" /\ o.class = "factor" -> o.levels[o.vals[i]]
      [] OTHER -> o.vals[i]

TypeOf(o) ==
    CASE o.rtype = "Doubles"  -> DT("Float64")
      [] o.rtype = "Strings"  -> DT("Utf8")
      [] o.rtype = "Logicals" -> DT("Boolean")
      [] o.rtype = "Integers" /\ o.class = "factor" -> DT("Categorical")
      [] o.rtype = "Integers" /\ o.class # "factor" -> DT("Int32")

\* C5: the Leaf built from a flat real, integer, text or logical vector of
\* length n has n slots; slot i is missing exactly when element i is the
\* missing marker and otherwise holds element i (for a factor, its label);
\* a vector with no missing marker gives the same Leaf whether or not it is
\* flagged no_na (fast path and per-element path).
C5_FlatVector ==
    (Parsed /\ x.rtype \in FlatShapes) =>
      /\ st.tag = "Series"
      /\ st.s.name = name
      /\ st.s.dtype = TypeOf(x)
      /\ Len(st.s.values) = Len(x.vals)
      /\ \A i \in 1..Len(x.vals) :
            /\ (st.s.values[i] = None) <=> Missing(x, i)
            /\ ~Missing(x, i) => st.s.values[i] = Some(Present(x, i))
      /\ (\A i \in 1..Len(x.vals) : ~Missing(x, i)) =>
            /\ recursive_robjname2series_tree([x EXCEPT !.no_na = TRUE], name, <<>>).st = st
            /\ recursive_robjname2series_tree([x EXCEPT !.no_na = FALSE], name, <<>>).st = st
      /\ ConcatRan => (out.kind = "Ok" /\ out.s = st.s)

\* C5 witness: an integer vector with a missing marker in its second place only
C5_Witness ==
    /\ pc = "parsed"
    /\ x.rtype = "Integers" /\ x.class = ""
    /\ x.vals = <<7, NA_INTEGER>>
    /\ st.s.values = <<Some(7), None>>

\* C5 witness of the fast path: a real vector flagged no_na
C5_WitnessFast ==
    /\ pc = "parsed"
    /\ x.rtype = "Doubles" /\ x.no_na /\ Len(x.vals) = 2
    /\ st.s.values = <<Some(x.vals[1]), Some(x.vals[2])>>

(***************************************************************************)
(* C9                                                                      *)
(***************************************************************************)
\* C9: the tree the builder returns holds no Branch with zero children at any
\* depth (an empty list and NULL both become Empty), so the concatenator never
\* comes to its zero-children arm and never panics.
C9_NoEmptyBranch ==
    /\ Parsed =>
         \A p \in TreePaths(st, <<>>) :
            /\ Subtree(st, p).tag = "SeriesVec" => Len(Subtree(st, p).sv) >= 1
            /\ RNode(x, p).rtype \in {"Null", "List"} /\ Len(RNode(x, p).elems) = 0
                  => Subtree(st, p) = SeriesEmptyVec
    /\ pc = "done" =>
         /\ out.kind # "Panic"
         /\ \A k \in 1..Len(clog) : clog[k].arm # "unreachable"

\* C9 witness: an input holding an empty list below the top, converted to the end
C9_Witness ==
    /\ ConcatRan
    /\ x.rtype = "List"
    /\ \E p \in TreePaths(st, <<>>) :
          /\ Len(p) >= 1
          /\ RNode(x, p).rtype = "List"
          /\ Len(RNode(x, p).elems) = 0
          /\ \E k \in EmptyEvents : clog[k].path = p

(***************************************************************************)
(* C10                                                                     *)
(***************************************************************************)
Uniform(t) == \A i, j \in 1..Len(Leaves(t)) : Leaves(t)[i] = Leaves(t)[j]

\* C10: when robjname2series succeeds on a tree with at least one Leaf, every
\* Leaf has the same type T, the resolved first-leaf type, and the same depth
\* d, and the Series returned has type T wrapped in d list levels; a tree with
\* two Leaves of different types or depths fails with SchemaMisMatch.
C10_UniformLeaves ==
    (ConcatRan /\ Leaves(st) # <<>>) =>
      /\ out.kind = "Ok" =>
           /\ Uniform(st)
           /\ first_leaf_dtype = Some(Leaves(st)[1].dtype)
           /\ out.s.dtype = [base  |-> Leaves(st)[1].dtype.base,
                             depth |-> Leaves(st)[1].dtype.depth + Leaves(st)[1].depth]
      /\ ~Uniform(st) => (out.kind = "Err" /\ out.err.variant = "SchemaMisMatch")

\* C10 witness: two Leaves of one type, both two levels down, converted
C10_Witness ==
    /\ ConcatRan
    /\ out.kind = "Ok"
    /\ Len(Leaves(st)) = 2
    /\ Leaves(st)[1].depth = 2
    /\ out.s.dtype.depth = 2

\* C10 witness of the failure: Leaves of one type at different depths
C10_WitnessDepth ==
    /\ ConcatRan
    /\ Len(Leaves(st)) = 2
    /\ Leaves(st)[1].dtype = Leaves(st)[2].dtype
    /\ Leaves(st)[1].depth # Leaves(st)[2].depth
    /\ out.kind = "Err"

(***************************************************************************)
(* rdatatype.rs: the string resolvers                                      *)
(***************************************************************************)
\* the strings the resolvers are called with
Strings ==
    {
     "Boolean", "logical", "UInt8", "uinteger8", "UInt16", "uinteger16",
     "UInt32", "uinteger32", "UInt64", "uinteger64", "Int8", "integer8",
     "Int16", "integer16", "Int32", "integer32", "integer", "Int64",
     "integer64", "Float32", "float32", "double", "Float64", "float64",
     "Utf8", "character", "Binary", "binary", "Date", "date", "Time",
     "time", "Null", "null", "Categorical", "factor", "Unknown", "unknown",
     "cross", "inner", "left", "outer", "semi", "anti", "nearest",
     "higher", "lower", "midpoint", "linear", "both", "none", "right",
     "ignore", "drop", "average", "dense", "max", "min", "ordinal",
     "random", "", "Outer", "OUTER", "Inner", "Average", "AVERAGE",
     "Dense", "orDinal", "Linear", "Both", "Drop", "Nearest", "boolean",
     "int32", "List", "foo", "Foo"}

\* str::to_lowercase on the strings above
to_lowercase(s) ==
    CASE s = "Boolean" -> "boolean"
      [] s = "UInt8" -> "uint8"
      [] s = "UInt16" -> "uint16"
      [] s = "UInt32" -> "uint32"
      [] s = "UInt64" -> "uint64"
      [] s = "Int8" -> "int8"
      [] s = "Int16" -> "int16"
      [] s = "Int32" -> "int32"
      [] s = "Int64" -> "int64"
      [] s = "Float32" -> "float32"
      [] s = "Float64" -> "float64"
      [] s = "Utf8" -> "utf8"
      [] s = "Binary" -> "binary"
      [] s = "Date" -> "date"
      [] s = "Time" -> "time"
      [] s = "Null" -> "null"
      [] s = "Categorical" -> "categorical"
      [] s = "Unknown" -> "unknown"
      [] s = "Outer" -> "outer"
      [] s = "OUTER" -> "outer"
      [] s = "Inner" -> "inner"
      [] s = "Average" -> "average"
      [] s = "AVERAGE" -> "average"
      [] s = "Dense" -> "dense"
      [] s = "orDinal" -> "ordinal"
      [] s = "Linear" -> "linear"
      [] s = "Both" -> "both"
      [] s = "Drop" -> "drop"
      [] s = "Nearest" -> "nearest"
      [] s = "List" -> "list"
      [] s = "Foo" -> "foo"
      [] OTHER -> s

Msg(text, args, quoted) == [text |-> text, args |-> args, quoted |-> quoted]
NoMsg == Msg("", <<>>, <<>>)

RetType(base)      == [kind |-> "Ok", dtype |-> DT(base), variant |-> "", msg |-> NoMsg, names |-> <<>>]
RetVariant(v)      == [kind |-> "Ok", dtype |-> DT("-"), variant |-> v, msg |-> NoMsg, names |-> <<>>]
\* Err(format!(text, args)); quoted are the words the text puts between quotes
RetErr(m)          == [kind |-> "Err", dtype |-> DT("-"), variant |-> "", msg |-> m, names |-> <<>>]
\* panic!(text)
RetPanic(text)     == [kind |-> "Panic", dtype |-> DT("-"), variant |-> "", msg |-> Msg(text, <<>>, <<>>), names |-> <<>>]
RetNames(ns)       == [kind |-> "Ok", dtype |-> DT("-"), variant |-> "", msg |-> NoMsg, names |-> ns]

\* DataType::new
DataType_new(s) ==
    CASE s \in {"Boolean", "logical"} -> RetType("Boolean")
      [] s \in {"UInt8", "uinteger8"} -> RetType("UInt8")
      [] s \in {"UInt16", "uinteger16"} -> RetType("UInt16")
      [] s \in {"UInt32", "uinteger32"} -> RetType("UInt32")
      [] s \in {"UInt64", "uinteger64"} -> RetType("UInt64")
      [] s \in {"Int8", "integer8"} -> RetType("Int8")
      [] s \in {"Int16", "integer16"} -> RetType("Int16")
      [] s \in {"Int32", "integer32", "integer"} -> RetType("Int32")
      [] s \in {"Int64", "integer64"} -> RetType("Int64")
      [] s \in {"Float32", "float32", "double"} -> RetType("Float32")
      [] s \in {"Float64", "float64"} -> RetType("Float64")
      [] s \in {"Utf8", "character"} -> RetType("Utf8")
      [] s \in {"Binary", "binary"} -> RetType("Binary")
      [] s \in {"Date", "date"} -> RetType("Date")
      [] s \in {"Time", "time"} -> RetType("Time")
      [] s \in {"Null", "null"} -> RetType("Null")
      [] s \in {"Categorical", "factor"} -> RetType("Categorical")
      [] s \in {"Unknown", "unknown"} -> RetType("Unknown")
      [] OTHER -> RetPanic("data type not recgnized")

\* DataType::new_list
DataType_new_list(inner) == ListOf(inner)

\* an enumeration with Int32 written twice, in the place of Int64
mutant_get_all_simple_type_names ==
    <<"Boolean", "UInt8", "UInt16", "UInt32", "UInt64", "Int8", "Int16", "Int32",
      "Int32", "Float32", "Float64", "Utf8", "Binary", "Date", "Time", "Null",
      "Categorical", "Unknown">>

\* DataType::get_all_simple_type_names
get_all_simple_type_names ==
    <<
      "Boolean", "UInt8", "UInt16", "UInt32", "UInt64", "Int8", "Int16",
      "Int32", "Int64", "Float32", "Float64", "Utf8", "Binary", "Date",
      "Time", "Null", "Categorical", "Unknown">>

\* DataType::eq / DataType::ne
DataType_eq(a, b) == a = b
DataType_ne(a, b) == a # b

new_join_type(s) ==
    CASE s = "cross" -> RetVariant("Cross")
      [] s = "inner" -> RetVariant("Inner")
      [] s = "left"  -> RetVariant("Left")
      [] s = "outer" -> RetVariant("Outer")
      [] s = "semi"  -> RetVariant("Semi")
      [] s = "anti"  -> RetVariant("Anti")
      [] OTHER -> RetPanic("rpolars internal error: jointype not recognized")

new_quantile_interpolation_option(s) ==
    CASE s = "nearest"  -> RetVariant("Nearest")
      [] s = "higher"   -> RetVariant("Higher")
      [] s = "lower"    -> RetVariant("Lower")
      [] s = "midpoint" -> RetVariant("Midpoint")
      [] s = "linear"   -> RetVariant("Linear")
      [] OTHER -> RetErr(Msg(
            "interpolation choice: [{}] is not any of 'nearest', 'higher', 'lower', 'midpoint', 'linear'",
            <<s>>, <<"nearest", "higher", "lower", "midpoint", "linear">>))

new_closed_window(s) ==
    CASE s = "both"  -> RetVariant("Both")
      [] s = "left"  -> RetVariant("Left")
      [] s = "none"  -> RetVariant("None")
      [] s = "right" -> RetVariant("Right")
      [] OTHER -> RetErr(Msg(
            "ClosedWindow choice: [{}] is not any of 'both', 'left', 'none' or 'right'",
            <<s>>, <<"both", "left", "none", "right">>))

new_null_behavior(s) ==
    CASE s = "ignore" -> RetVariant("Ignore")
      [] s = "drop"   -> RetVariant("Drop")
      [] OTHER -> RetErr(Msg(
            "NullBehavior choice: [{}] is not any of 'drop' or 'ignore'",
            <<s>>, <<"drop", "ignore">>))

new_rank_method(s) ==
    LET s_low == to_lowercase(s)
    IN  CASE s_low = "average" -> RetVariant("Average")
          [] s_low = "dense"   -> RetVariant("Dense")
          [] s_low = "max"     -> RetVariant("Max")
          [] s_low = "min"     -> RetVariant("Min")
          [] s_low = "ordinal" -> RetVariant("Ordinal")
          [] s_low = "random"  -> RetVariant("Random")
          [] OTHER -> RetErr(Msg(
                "RankMethod choice: [{}] is not any 'average','dense', 'min', 'max', 'ordinal', 'random'",
                <<s_low>>, <<"average", "dense", "min", "max", "ordinal", "random">>))

new_interpolation_method(s) ==
    CASE s = "linear"  -> RetVariant("Linear")
      [] s = "nearest" -> RetVariant("Nearest")
      [] OTHER -> RetErr(Msg(
            "InterpolationMethod choice: [{}] is not any of 'linear' or 'nearest'",
            <<s>>, <<"linear", "nearest">>))

(***************************************************************************)
(* Calls of the resolvers                                                  *)
(***************************************************************************)
InitCatalog ==
    /\ InitConvIdle
    /\ InitCatIdle
    /\ InitDtvIdle

call_DataType_new ==
    \E s \in Strings :
        /\ call' = [fn |-> "DataType_new", arg |-> s]
        /\ ret' = DataType_new(s)
        /\ UNCHANGED <<convVars, dtvVars>>

call_get_all_simple_type_names ==
    /\ call' = [fn |-> "get_all_simple_type_names", arg |-> ""]
    /\ ret' = RetNames(get_all_simple_type_names)
    /\ UNCHANGED <<convVars, dtvVars>>

call_new_join_type ==
    \E s \in Strings :
        /\ call' = [fn |-> "new_join_type", arg |-> s]
        /\ ret' = new_join_type(s)
        /\ UNCHANGED <<convVars, dtvVars>>

call_new_quantile_interpolation_option ==
    \E s \in Strings :
        /\ call' = [fn |-> "new_quantile_interpolation_option", arg |-> s]
        /\ ret' = new_quantile_interpolation_option(s)
        /\ UNCHANGED <<convVars, dtvVars>>

call_new_closed_window ==
    \E s \in Strings :
        /\ call' = [fn |-> "new_closed_window", arg |-> s]
        /\ ret' = new_closed_window(s)
        /\ UNCHANGED <<convVars, dtvVars>>

call_new_null_behavior ==
    \E s \in Strings :
        /\ call' = [fn |-> "new_null_behavior", arg |-> s]
        /\ ret' = new_null_behavior(s)
        /\ UNCHANGED <<convVars, dtvVars>>

call_new_rank_method ==
    \E s \in Strings :
        /\ call' = [fn |-> "new_rank_method", arg |-> s]
        /\ ret' = new_rank_method(s)
        /\ UNCHANGED <<convVars, dtvVars>>

call_new_interpolation_method ==
    \E s \in Strings :
        /\ call' = [fn |-> "new_interpolation_method", arg |-> s]
        /\ ret' = new_interpolation_method(s)
        /\ UNCHANGED <<convVars, dtvVars>>

NextCatalog ==
    \/ call_DataType_new
    \/ call_get_all_simple_type_names
    \/ call_new_join_type
    \/ call_new_quantile_interpolation_option
    \/ call_new_closed_window
    \/ call_new_null_behavior
    \/ call_new_rank_method
    \/ call_new_interpolation_method

SpecCatalog == InitCatalog /\ [][NextCatalog]_vars

(***************************************************************************)
(* C6                                                                      *)
(***************************************************************************)
\* the strings each resolver is documented to accept, and the value of each
Choices(fn) ==
    CASE fn = "new_join_type" ->
            [cross |-> "Cross", inner |-> "Inner", left |-> "Left",
             outer |-> "Outer", semi |-> "Semi", anti |-> "Anti"]
      [] fn = "new_quantile_interpolation_option" ->
            [nearest |-> "Nearest", higher |-> "Higher", lower |-> "Lower",
             midpoint |-> "Midpoint", linear |-> "Linear"]
      [] fn = "new_closed_window" ->
            [both |-> "Both", left |-> "Left", none |-> "None", right |-> "Right"]
      [] fn = "new_null_behavior" -> [ignore |-> "Ignore", drop |-> "Drop"]
      [] fn = "new_rank_method" ->
            [average |-> "Average", dense |-> "Dense", max |-> "Max",
             min |-> "Min", ordinal |-> "Ordinal", random |-> "Random"]
      [] fn = "new_interpolation_method" -> [linear |-> "Linear", nearest |-> "Nearest"]

EnumResolvers ==
    {"new_join_type", "new_quantile_interpolation_option", "new_closed_window",
     "new_null_behavior", "new_rank_method", "new_interpolation_method"}

\* the type names and aliases DataType::new is documented to accept
TypeAliases ==
    [Boolean |-> "Boolean", logical |-> "Boolean",
     UInt8 |-> "UInt8", uinteger8 |-> "UInt8", UInt16 |-> "UInt16", uinteger16 |-> "UInt16",
     UInt32 |-> "UInt32", uinteger32 |-> "UInt32", UInt64 |-> "UInt64", uinteger64 |-> "UInt64",
     Int8 |-> "Int8", integer8 |-> "Int8", Int16 |-> "Int16", integer16 |-> "Int16",
     Int32 |-> "Int32", integer32 |-> "Int32", integer |-> "Int32",
     Int64 |-> "Int64", integer64 |-> "Int64",
     Float32 |-> "Float32", float32 |-> "Float32", double |-> "Float32",
     Float64 |-> "Float64", float64 |-> "Float64",
     Utf8 |-> "Utf8", character |-> "Utf8", Binary |-> "Binary", binary |-> "Binary",
     Date |-> "Date", date |-> "Date", Time |-> "Time", time |-> "Time",
     Null |-> "Null", null |-> "Null", Categorical |-> "Categorical", factor |-> "Categorical",
     Unknown |-> "Unknown", unknown |-> "Unknown"]

\* the string a resolver matches: as given, lower-cased by new_rank_method only
Matched(fn, s) == IF fn = "new_rank_method" THEN to_lowercase(s) ELSE s

InSeq(v, q) == \E i \in 1..Len(q) : q[i] = v

\* an explicit error result whose message carries the offending string and
\* the accepted values
ExplicitError(r, s, accepted) ==
    /\ r.kind = "Err"
    /\ InSeq(s, r.msg.args)
    /\ \A a \in accepted : InSeq(a, r.msg.quoted)

\* C6: every string resolver is total: an accepted string gives the matching
\* value, any other string an explicit error result whose message carries the
\* offending string and the accepted values; matching is exact-case except for
\* the rank method, so join kind "outer" gives Outer and "Outer" an error result.
C6_ResolversTotal ==
    /\ call.fn \in EnumResolvers =>
         IF Matched(call.fn, call.arg) \in DOMAIN Choices(call.fn)
         THEN ret.kind = "Ok" /\ ret.variant = Choices(call.fn)[Matched(call.fn, call.arg)]
         ELSE ExplicitError(ret, call.arg, DOMAIN Choices(call.fn))
    /\ call.fn = "DataType_new" =>
         IF call.arg \in DOMAIN TypeAliases
         THEN ret.kind = "Ok" /\ ret.dtype = DT(TypeAliases[call.arg])
         ELSE ExplicitError(ret, call.arg, DOMAIN TypeAliases)
    /\ (call.fn = "new_join_type" /\ call.arg = "outer") => ret.variant = "Outer"
    /\ (call.fn = "new_join_type" /\ call.arg = "Outer") => ret.kind = "Err"

\* C6, as far as the code goes: every resolver gives the matching value for an
\* accepted string and fails for any other; the four resolvers that return a
\* Result and match the string as given carry it and the accepted values in
\* the message; DataType::new and new_join_type panic with a fixed message,
\* and new_rank_method reports the lower-cased string.
C6_AsCoded ==
    /\ call.fn \in EnumResolvers =>
         IF Matched(call.fn, call.arg) \in DOMAIN Choices(call.fn)
         THEN ret.kind = "Ok" /\ ret.variant = Choices(call.fn)[Matched(call.fn, call.arg)]
         ELSE CASE call.fn = "new_join_type" ->
                     ret.kind = "Panic" /\ ret.msg.args = <<>> /\ ret.msg.quoted = <<>>
                [] call.fn = "new_rank_method" ->
                     ExplicitError(ret, to_lowercase(call.arg), DOMAIN Choices(call.fn))
                [] OTHER -> ExplicitError(ret, call.arg, DOMAIN Choices(call.fn))
    /\ call.fn = "DataType_new" =>
         IF call.arg \in DOMAIN TypeAliases
         THEN ret.kind = "Ok" /\ ret.dtype = DT(TypeAliases[call.arg])
         ELSE ret.kind = "Panic" /\ ret.msg.args = <<>> /\ ret.msg.quoted = <<>>

(***************************************************************************)
(* C7                                                                      *)
(***************************************************************************)
\* C7: get_all_simple_type_names returns 18 pairwise distinct names, the same
\* sequence at every call; DataType::new accepts each of them and resolves it
\* to the type of that name, and no two of them resolve to equal types.
C7_SimpleTypeNames ==
    /\ call.fn = "get_all_simple_type_names" =>
         /\ ret.kind = "Ok"
         /\ Len(ret.names) = 18
         /\ ret.names = get_all_simple_type_names
         /\ \A i, j \in 1..Len(ret.names) :
               i # j =>
                 /\ ret.names[i] # ret.names[j]
                 /\ DataType_ne(DataType_new(ret.names[i]).dtype,
                                DataType_new(ret.names[j]).dtype)
         /\ \A i \in 1..Len(ret.names) :
               /\ DataType_new(ret.names[i]).kind = "Ok"
               /\ DataType_new(ret.names[i]).dtype = DT(ret.names[i])
    /\ (call.fn = "DataType_new" /\ InSeq(call.arg, get_all_simple_type_names)) =>
         /\ ret.kind = "Ok"
         /\ ret.dtype = DT(call.arg)
         /\ ret.dtype.depth = 0

\* C7 witness: the last enumerated name, resolved
C7_Witness ==
    /\ call.fn = "DataType_new"
    /\ call.arg = get_all_simple_type_names[18]
    /\ ret.kind = "Ok"
    /\ ret.dtype = DT("Unknown")

(***************************************************************************)
(* rdatatype.rs: DataTypeVector                                            *)
(***************************************************************************)
\* an entry of the R list: its name, whether its class attribute holds
\* "DataType", its Rtype, and the DataType an external pointer points to
Entry(nm, inherits, rtype, payload) ==
    [name |-> nm, inherits_DataType |-> inherits, rtype |-> rtype, payload |-> payload]

EntryKinds ==
    {[inherits_DataType |-> TRUE,  rtype |-> "ExternalPtr", payload |-> DT("Int32")],
     [inherits_DataType |-> TRUE,  rtype |-> "ExternalPtr", payload |-> DT("Utf8")],
     [inherits_DataType |-> FALSE, rtype |-> "ExternalPtr", payload |-> DT("-")],
     [inherits_DataType |-> TRUE,  rtype |-> "List",        payload |-> DT("-")],
     [inherits_DataType |-> FALSE, rtype |-> "Strings",     payload |-> DT("-")]}

RLists ==
    {[i \in 1..Len(q) |->
         Entry(ElemNames[i], q[i].inherits_DataType, q[i].rtype, q[i].payload)] :
       q \in SeqsUpTo(EntryKinds, MaxEntries)}

\* DataTypeVector::new
DataTypeVector_new == <<>>

\* DataTypeVector::push: Wrap(colname).into() turns the Nullable into an Option
push(v, colname, datatype) == Append(v, [name |-> colname, dtype |-> datatype])

\* a test that rejects only what fails both checks
mutant_not_a_datatype(robj) == ~robj.inherits_DataType /\ robj.rtype # "ExternalPtr"

\* the test at the head of the closure of from_rlist
not_a_datatype(robj) == ~robj.inherits_DataType \/ robj.rtype # "ExternalPtr"

\* DataTypeVector::dtv_to_vec
dtv_to_vec(v) == [i \in 1..Len(v) |-> v[i].dtype]

InitDtv ==
    /\ InitConvIdle
    /\ InitCatIdle
    /\ rlist \in RLists
    /\ dtv = <<>>
    /\ idx = 0
    /\ res = NoRes

\* let mut dtv = DataTypeVector(Vec::with_capacity(list.len()));
from_rlist_alloc ==
    /\ res.kind = "-"
    /\ dtv' = DataTypeVector_new
    /\ idx' = 1
    /\ res' = [res EXCEPT !.kind = "iter"]
    /\ UNCHANGED <<rlist, convVars, catVars>>

\* the closure on an entry that passes the test: dtv.push(name, &dt); Ok(())
from_rlist_push ==
    /\ res.kind = "iter"
    /\ idx <= Len(rlist)
    /\ ~not_a_datatype(rlist[idx])
    /\ dtv' = push(dtv, Some(rlist[idx].name), rlist[idx].payload)
    /\ idx' = idx + 1
    /\ UNCHANGED <<rlist, res, convVars, catVars>>

\* the closure on an entry that fails the test: collect() stops at this Err,
\* result.map(|_| dtv) drops the vector and r_result_list returns the message
from_rlist_err ==
    /\ res.kind = "iter"
    /\ idx <= Len(rlist)
    /\ not_a_datatype(rlist[idx])
    /\ res' = [kind |-> "Err", dtv |-> <<>>,
               err |-> "Internal error: Object is not a DataType", vec |-> <<>>]
    /\ UNCHANGED <<rlist, dtv, idx, convVars, catVars>>

\* the iterator is exhausted: r_result_list(result.map(|_| dtv)) returns the vector
from_rlist_ok ==
    /\ res.kind = "iter"
    /\ idx > Len(rlist)
    /\ res' = [kind |-> "Ok", dtv |-> dtv, err |-> "", vec |-> <<>>]
    /\ UNCHANGED <<rlist, dtv, idx, convVars, catVars>>

\* a consumer reads the positional schema of the vector returned
call_dtv_to_vec ==
    /\ res.kind = "Ok"
    /\ res' = [res EXCEPT !.kind = "Vec", !.vec = dtv_to_vec(res.dtv)]
    /\ UNCHANGED <<rlist, dtv, idx, convVars, catVars>>

NextDtv ==
    \/ from_rlist_alloc
    \/ from_rlist_push
    \/ from_rlist_err
    \/ from_rlist_ok
    \/ call_dtv_to_vec

SpecDtv == InitDtv /\ [][NextDtv]_vars

(***************************************************************************)
(* C8                                                                      *)
(***************************************************************************)
\* an entry that carries a DataType: an external pointer of class DataType
CarriesDataType(e) == e.inherits_DataType /\ e.rtype = "ExternalPtr"

Invalid == {i \in 1..Len(rlist) : ~CarriesDataType(rlist[i])}

Returned == res.kind \in {"Ok", "Err", "Vec"}

\* C8: from_rlist is all-or-nothing: when every entry carries a DataType it
\* returns one entry per input entry, in input order, holding that entry's
\* type (and name), and dtv_to_vec gives those types in order; otherwise it
\* fails with "Object is not a DataType" at the first invalid entry, nothing
\* is appended from that entry on, and no vector is returned.
C8_FromRlist ==
    /\ Returned =>
         IF Invalid = {}
         THEN /\ res.kind \in {"Ok", "Vec"}
              /\ res.err = ""
              /\ Len(res.dtv) = Len(rlist)
              /\ \A i \in 1..Len(rlist) :
                    /\ res.dtv[i].dtype = rlist[i].payload
                    /\ res.dtv[i].name = Some(rlist[i].name)
              /\ res.kind = "Vec" =>
                    res.vec = [i \in 1..Len(rlist) |-> rlist[i].payload]
         ELSE /\ res.kind = "Err"
              /\ res.err = "Internal error: Object is not a DataType"
              /\ res.dtv = <<>>
              /\ res.vec = <<>>
              /\ idx \in Invalid /\ \A j \in Invalid : idx <= j
              /\ Len(dtv) = idx - 1
    /\ res.kind = "iter" =>
         /\ Len(dtv) = idx - 1
         /\ \A j \in Invalid : idx <= j
         /\ \A i \in 1..Len(dtv) : dtv[i].dtype = rlist[i].payload

\* C8 witness: two valid entries, then an invalid one; the two entries already
\* pushed are not returned
C8_Witness ==
    /\ res.kind = "Err"
    /\ Len(rlist) = 3
    /\ idx = 3
    /\ Len(dtv) = 2
    /\ res.dtv = <<>>

\* C8 witness of success: three entries of two types, read back in order
C8_WitnessOk ==
    /\ res.kind = "Vec"
    /\ Len(rlist) = 3
    /\ res.vec = <<DT("Int32"), DT("Utf8"), DT("Int32")>>

=============================================================================
